---- MODULE Spec2Model ----
(***************************************************************************)
(* State-machine model of the multitrack recorder/player "Smart Cursor     *)
(* DAW" (src/unnamed/part_000): capture sessions, play-from-cursor         *)
(* scheduling, the project cursor and the scrub engine.                    *)
(*                                                                         *)
(* Times are integers in milliseconds.  audioContext.currentTime and       *)
(* performance.now() are read off the one time base `now`.                 *)
(* The program runs on one cooperative event loop: every action below is   *)
(* one turn (an event handler, a timer or frame callback, or the           *)
(* continuation of an awaited promise) run to completion.  Handlers are    *)
(* written as operators on the record of the program's variables, named    *)
(* after the functions of the source, so that a handler is the             *)
(* composition of the functions it calls.                                  *)
(*                                                                         *)
(* A buffer-source node is a record held in the list that refers to it     *)
(* (timelines[i].sourceNodes, activeScrubSources).  Its identity is its    *)
(* track and its generation `gen`: the scheduling pass that created it.    *)
(* A node that was stopped and dropped from its list still has its ended   *)
(* event to deliver: it is kept in `stale` with generation 0.              *)
(***************************************************************************)
EXTENDS Integers, Sequences, FiniteSets, TLC

\* ------------------------------------------------------------------ config
PIXELS_PER_SECOND == 50
TRACK_DURATION_SECONDS == 600
SCRUB_SLICE_MS == 80
SCRUB_THROTTLE_MS == 30
SCHEDULING_DELAY_MS == 50
WATCHDOG_EXTRA_MS == 50
SINGLE_SHOT_EXTRA_MS == 60
pageWidth == 1000

TrackDurationMs == TRACK_DURATION_SECONDS * 1000

\* ------------------------------------------------------------------ bounds
TIMELINE_COUNT == 2
\* how many events of a kind the environment produces in one run
MaxTicks == 2
MaxPlays == 2
MaxGestures == 2
\* resources
MaxSingleShots == 1
MaxPendingResume == 2
MaxStartTime == 4000

Tracks == 1..TIMELINE_COUNT

Max(a, b) == IF a >= b THEN a ELSE b
Min(a, b) == IF a <= b THEN a ELSE b

VARIABLES
  now,                          \* device clock / performance.now()
  used,                         \* events of each bounded kind so far
  audioState,                   \* audioContext.state
  pendingResume,                \* handlers suspended on audioContext.resume()
  isPlaying,
  projectStartTime,             \* device time of project time zero
  animationId,                  \* a frame callback of the play loop is requested
  currentPage,
  projectCursorTime,
  projectCursorTimeAtPlayStart,
  timelines,                    \* per track record
  isScrubbing,
  lastPerformScrubAt,
  activeScrubSources,           \* sequence of scrub nodes
  scrubRAF,                     \* a frame callback of the scrub loop is requested
  draggingCursor,
  stale,                        \* dropped nodes whose ended event is still to come
  timers,                       \* due times of the pending single-shot clear timers
  watchdogs,                    \* the pending stopTimeout timers of scrub nodes
  uncaught,                     \* an exception escaped a handler
  triggerLog,                   \* history: the times of the last two scrub triggers
                                \* that were not throttled
  committed,                    \* history: per track, << buffer, startTime >> as the
                                \* last decode or clip drag left them
  op,                           \* history: the last event handled, with its inputs
  lastFrame                     \* history: <<the cursor time the last frame update
                                \* of this playback computed>>, <<>> when stopped

vars == << now, used, audioState, pendingResume, isPlaying, projectStartTime,
           animationId, currentPage, projectCursorTime,
           projectCursorTimeAtPlayStart, timelines, isScrubbing,
           lastPerformScrubAt, activeScrubSources, scrubRAF, draggingCursor,
           stale, timers, watchdogs, uncaught, triggerLog, committed, op,
           lastFrame >>

\* The program's variables as one record.
Cur ==
  [ now |-> now, audioState |-> audioState, pendingResume |-> pendingResume,
    isPlaying |-> isPlaying, projectStartTime |-> projectStartTime,
    animationId |-> animationId, currentPage |-> currentPage,
    projectCursorTime |-> projectCursorTime,
    projectCursorTimeAtPlayStart |-> projectCursorTimeAtPlayStart,
    timelines |-> timelines, isScrubbing |-> isScrubbing,
    lastPerformScrubAt |-> lastPerformScrubAt,
    activeScrubSources |-> activeScrubSources, scrubRAF |-> scrubRAF,
    draggingCursor |-> draggingCursor, stale |-> stale, timers |-> timers,
    watchdogs |-> watchdogs,
    uncaught |-> uncaught, triggerLog |-> triggerLog ]

\* The resources the model keeps bounded.
Bounded(s) ==
  /\ Cardinality(s.timers) <= MaxSingleShots
  /\ Len(s.pendingResume) <= MaxPendingResume

Limit == [tick |-> MaxTicks, play |-> MaxPlays, gesture |-> MaxGestures]

\* An event: the handler that ran, the track it is about (0: none) and the
\* time it was given (0: none); for the play handler, the cursor time it
\* found.
Ev(name, track, t) == [name |-> name, track |-> track, t |-> t]

\* the bounded kind an event counts as ("none": not counted)
KindOf(o) ==
  CASE o.name = "tick" -> "tick"
    [] o.name \in {"play", "playClickWait"} -> "play"
    [] o.name \in {"cursorDown", "trackDown", "trackClick"} -> "gesture"
    [] OTHER -> "none"

\* the events that run the play handler to its end
PlayNames == {"play", "resumedPlay", "resumedPlays"}

\* The record s becomes the next state; o describes the event.
Commit(s, o) ==
  /\ Bounded(s)
  /\ IF KindOf(o) = "none" THEN used' = used
     ELSE used[KindOf(o)] < Limit[KindOf(o)] /\ used' = [used EXCEPT ![KindOf(o)] = @ + 1]
  /\ now' = s.now
  /\ audioState' = s.audioState
  /\ pendingResume' = s.pendingResume
  /\ isPlaying' = s.isPlaying
  /\ projectStartTime' = s.projectStartTime
  /\ animationId' = s.animationId
  /\ currentPage' = s.currentPage
  /\ projectCursorTime' = s.projectCursorTime
  /\ projectCursorTimeAtPlayStart' = s.projectCursorTimeAtPlayStart
  /\ timelines' = s.timelines
  /\ isScrubbing' = s.isScrubbing
  /\ lastPerformScrubAt' = s.lastPerformScrubAt
  /\ activeScrubSources' = s.activeScrubSources
  /\ scrubRAF' = s.scrubRAF
  /\ draggingCursor' = s.draggingCursor
  /\ stale' = s.stale
  /\ timers' = s.timers
  /\ watchdogs' = s.watchdogs
  /\ uncaught' = s.uncaught
  /\ triggerLog' = s.triggerLog
  /\ committed' = [i \in Tracks |->
                     IF \/ o.name = "decoded" /\ o.track = i
                        \/ o.name = "pointerMove" /\ s.timelines[i].isDraggingTimeline
                     THEN << s.timelines[i].buffer, s.timelines[i].startTime >>
                     ELSE committed[i]]
  /\ op' = o
  /\ lastFrame' = IF ~s.isPlaying THEN << >>
                  ELSE IF o.name \in PlayNames \cup {"frame"} THEN << s.projectCursorTime >>
                  ELSE lastFrame

\* ---------------------------------------------------------- initial state
\* timelines[index] as createTimeline leaves it.  buffer is <<>> for null and
\* <<d>> for a decoded buffer of duration d.
NewTimeline ==
  [ buffer |-> << >>, startTime |-> 0, isRecording |-> FALSE, chunks |-> 0,
    recorder |-> "null", mediaStream |-> FALSE, sourceNodes |-> << >>,
    isDraggingTimeline |-> FALSE, dragStartOffset |-> 0,
    streamRequested |-> 0, stopEventQueued |-> FALSE ]

Init ==
  /\ now = 0
  /\ used = [k \in DOMAIN Limit |-> 0]
  /\ audioState \in {"suspended", "running"}
  /\ pendingResume = << >>
  /\ isPlaying = FALSE
  /\ projectStartTime = 0
  /\ animationId = FALSE
  /\ currentPage = 0
  /\ projectCursorTime = 0
  /\ projectCursorTimeAtPlayStart = 0
  /\ timelines = [i \in Tracks |-> NewTimeline]
  /\ isScrubbing = FALSE
  /\ lastPerformScrubAt = 0
  /\ activeScrubSources = << >>
  /\ scrubRAF = FALSE
  /\ draggingCursor = FALSE
  /\ stale = {}
  /\ timers = {}
  /\ watchdogs = {}
  /\ uncaught = FALSE
  /\ triggerLog = << >>
  /\ committed = [i \in Tracks |-> << timelines[i].buffer, timelines[i].startTime >>]
  /\ op = Ev("init", 0, 0)
  /\ lastFrame = << >>

\* ------------------------------------------------------- buffer sources
\* st is "started" once start() was accepted, "unstarted" when start() threw,
\* "stopped" once stop() took effect (the ended event is then on its way).
\* endAt is the device time at which a started node reaches the end of what
\* it plays; timeout is <<due>> for a scrub node, the handle of its watchdog
\* timer (stopTimeout), due at that time.  starts counts the calls of start()
\* made on the node; when and offset are the arguments of the last of them.
Node(kind, track, gen, when, offset, endAt, st, timeout, starts) ==
  [ kind |-> kind, track |-> track, gen |-> gen, when |-> when, offset |-> offset,
    endAt |-> endAt, st |-> st, timeout |-> timeout, starts |-> starts ]

Range(q) == {q[k] : k \in DOMAIN q}

\* the same node object
Same(x, kind, track, gen) == x.kind = kind /\ x.track = track /\ x.gen = gen

\* a generation no node of the list carries
NewGen(list) ==
  LET taken == {x.gen : x \in Range(list)}
  IN  CHOOSE n \in 1..(Cardinality(taken) + 1) : n \notin taken

\* src.stop(): throws on a node that never started, ends a started node
\* (its ended event follows), and does nothing to a node already stopped.
Stop(x) ==
  IF x.st = "unstarted" THEN [node |-> x, threw |-> TRUE]
  ELSE [node |-> [x EXCEPT !.st = "stopped"], threw |-> FALSE]

\* stop() outside a try block
StopNoCatch(x) == Stop(x)

\* try { src.stop(); } catch (e) {}
TryStop(x) == [Stop(x) EXCEPT !.threw = FALSE]

\* The nodes of a list that is being emptied: those that were started have
\* an ended event to come; a dropped node is told apart by generation 0.
Retired(list) ==
  {[kind |-> x.kind, track |-> x.track, gen |-> 0] :
     x \in {y \in Range(list) : TryStop(y).node.st = "stopped"}}

\* an exception left the forEach over the list
Threw(list) == \E x \in Range(list) : TryStop(x).threw

\* -------------------------------------------------- utility: stop/cleanup
RECURSIVE stopTracks(_, _)
stopTracks(s, i) ==
  IF i > TIMELINE_COUNT THEN s
  ELSE stopTracks([s EXCEPT !.stale = @ \cup Retired(s.timelines[i].sourceNodes),
                            !.uncaught = @ \/ Threw(s.timelines[i].sourceNodes),
                            !.timelines[i].sourceNodes = << >>], i + 1)

\* stopAllSources without the forEach over the tracks
stopAllSourcesKeepNodes(s) ==
  [s EXCEPT !.animationId = FALSE, !.isPlaying = FALSE]

\* stopAllSources without its last line
stopAllSourcesKeepPlaying(s) ==
  [stopTracks(s, 1) EXCEPT !.animationId = FALSE]

stopAllSources(s) ==
  [stopTracks(s, 1) EXCEPT !.animationId = FALSE, !.isPlaying = FALSE]

\* the timer a scrub node's stopTimeout is the handle of
Timer(x) == [track |-> x.track, gen |-> x.gen, due |-> x.timeout[1]]

\* clearScrubSources without clearTimeout(item.stopTimeout)
clearScrubSourcesKeepTimers(s) ==
  [s EXCEPT !.stale = @ \cup Retired(s.activeScrubSources),
            !.uncaught = @ \/ Threw(s.activeScrubSources),
            !.activeScrubSources = << >>]

\* stops every scrub node and clears its watchdog timer
clearScrubSources(s) ==
  [s EXCEPT !.stale = @ \cup Retired(s.activeScrubSources),
            !.uncaught = @ \/ Threw(s.activeScrubSources),
            !.watchdogs = @ \ {Timer(x) : x \in Range(s.activeScrubSources)},
            !.activeScrubSources = << >>]

\* ------------------------------------------------------ cursor management
\* Math.floor(globalX / pageWidth) with globalX = projectCursorTime (s) * PIXELS_PER_SECOND
PageOf(t) == (t * PIXELS_PER_SECOND) \div (pageWidth * 1000)

updateCursorVisual(s) ==
  [s EXCEPT !.currentPage = PageOf(s.projectCursorTime)]

Clamp(t) == Max(0, Min(t, TrackDurationMs))

\* setProjectCursorTime without the clamp
setProjectCursorTimeUnclamped(s, t) ==
  updateCursorVisual([s EXCEPT !.projectCursorTime = t])

setProjectCursorTime(s, t) ==
  updateCursorVisual([s EXCEPT !.projectCursorTime = Clamp(t)])

\* ------------------------------------------------------------- scrubbing
\* stopScrubMode without its last line
stopScrubModeNoClear(s) ==
  [s EXCEPT !.isScrubbing = FALSE, !.scrubRAF = FALSE]

stopScrubMode(s) ==
  clearScrubSources([s EXCEPT !.isScrubbing = FALSE, !.scrubRAF = FALSE])

\* --------------------------------------------------- play-from-cursor
\* clipEnd < playFrom
ClipOverStrict(clipStart, duration, playFrom) == clipStart + duration < playFrom

\* clipEnd <= playFrom: nothing to play
ClipOver(clipStart, duration, playFrom) == clipStart + duration <= playFrom

\* the offset argument of src.start
PlayOffset(clipStart, playFrom) ==
  IF clipStart <= playFrom THEN Max(0, playFrom - clipStart) ELSE 0

\* every clip started at startAt
PlayWhenImmediate(clipStart, playFrom, startAt) == startAt

\* the when argument of src.start
PlayWhen(clipStart, playFrom, startAt) ==
  IF clipStart <= playFrom THEN startAt ELSE startAt + (clipStart - playFrom)

\* One iteration of timelines.forEach in the play handler; rejected is the
\* set of tracks whose src.start() the device refuses (it throws).
scheduleTrack(s, i, startAt, rejected) ==
  LET tl == s.timelines[i]
      playFrom == s.projectCursorTimeAtPlayStart
  IN  IF tl.buffer = << >> THEN s
      ELSE IF ClipOver(tl.startTime, tl.buffer[1], playFrom) THEN s
      ELSE LET off == PlayOffset(tl.startTime, playFrom)
               when == PlayWhen(tl.startTime, playFrom, startAt)
               src == Node("play", i, NewGen(tl.sourceNodes), when, off,
                           when + (tl.buffer[1] - off),
                           IF i \in rejected THEN "unstarted" ELSE "started", << >>, 1)
           IN  [s EXCEPT !.timelines[i].sourceNodes = Append(@, src)]

\* the forEach of the play handler left by the first start() that throws
RECURSIVE scheduleBuffersAbort(_, _, _, _)
scheduleBuffersAbort(s, i, startAt, rejected) ==
  IF i > TIMELINE_COUNT THEN s
  ELSE IF i \in rejected /\ scheduleTrack(s, i, startAt, rejected) # s THEN s
  ELSE scheduleBuffersAbort(scheduleTrack(s, i, startAt, rejected), i + 1, startAt, rejected)

RECURSIVE scheduleBuffers(_, _, _, _)
scheduleBuffers(s, i, startAt, rejected) ==
  IF i > TIMELINE_COUNT THEN s
  ELSE scheduleBuffers(scheduleTrack(s, i, startAt, rejected), i + 1, startAt, rejected)

\* a frame update that leaves the cursor where it finds it
animateCursorNoRecompute(s) ==
  IF ~s.isPlaying THEN s
  ELSE IF s.projectCursorTime >= TrackDurationMs
       THEN stopAllSources(s)
       ELSE [s EXCEPT !.animationId = TRUE]

\* a frame update without the end-of-track test
animateCursorNoEndTest(s) ==
  IF ~s.isPlaying THEN s
  ELSE [updateCursorVisual([s EXCEPT !.projectCursorTime = s.now - s.projectStartTime])
          EXCEPT !.animationId = TRUE]

\* animate cursor while playing
animateCursorDuringPlay(s) ==
  IF ~s.isPlaying THEN s
  ELSE LET s1 == updateCursorVisual(
                   [s EXCEPT !.projectCursorTime = s.now - s.projectStartTime])
       IN  IF s1.projectCursorTime >= TrackDurationMs
           THEN stopAllSources(s1)
           ELSE [s1 EXCEPT !.animationId = TRUE]

\* the play handler anchoring the clock without the scheduling delay
playFromCursorNoLatency(s, rejected) ==
  LET startAt == s.now + SCHEDULING_DELAY_MS
      s1 == [s EXCEPT !.projectCursorTimeAtPlayStart = s.projectCursorTime,
                      !.projectStartTime = s.now - s.projectCursorTime]
      s2 == stopAllSources(clearScrubSources(stopScrubMode(s1)))
      s3 == scheduleBuffers(s2, 1, startAt, rejected)
  IN  animateCursorDuringPlay([s3 EXCEPT !.isPlaying = TRUE])

\* the play handler without stopAllSources()
playFromCursorNoStop(s, rejected) ==
  LET startAt == s.now + SCHEDULING_DELAY_MS
      s1 == [s EXCEPT !.projectCursorTimeAtPlayStart = s.projectCursorTime,
                      !.projectStartTime = startAt - s.projectCursorTime]
      s2 == clearScrubSources(stopScrubMode(s1))
      s3 == scheduleBuffers(s2, 1, startAt, rejected)
  IN  animateCursorDuringPlay([s3 EXCEPT !.isPlaying = TRUE])

\* The play handler after `await ensureAudioContextRunning()`.
playFromCursor(s, rejected) ==
  LET startAt == s.now + SCHEDULING_DELAY_MS
      s1 == [s EXCEPT !.projectCursorTimeAtPlayStart = s.projectCursorTime,
                      !.projectStartTime = startAt - s.projectCursorTime]
      s2 == stopAllSources(clearScrubSources(stopScrubMode(s1)))
      s3 == scheduleBuffers(s2, 1, startAt, rejected)
  IN  animateCursorDuringPlay([s3 EXCEPT !.isPlaying = TRUE])

\* ------------------------------------------------------------- scrubbing
\* One iteration of timelines.forEach in performScrubAt.  outcome[i] says how
\* the device answers src.start() for track i: "ok", "retried" (the first
\* call throws, the second is accepted) or "failed" (both throw).
\* the overlap test letting the end of the clip through
ScrubOverlapsToEnd(clipStart, duration, cursorTime) ==
  ~(cursorTime - clipStart < 0 \/ cursorTime - clipStart > duration)

ScrubOverlaps(clipStart, duration, cursorTime) ==
  ~(cursorTime - clipStart < 0 \/ cursorTime - clipStart >= duration)

ScrubDuration(result) == IF result = "retried" THEN SCRUB_SLICE_MS \div 2 ELSE SCRUB_SLICE_MS

\* the iteration with a retry that reads from the start of the buffer
scrubTrackRetryAtZero(s, i, cursorTime, gen, outcome) ==
  LET tl == s.timelines[i]
  IN  IF tl.buffer = << >> THEN s
      ELSE IF ~ScrubOverlaps(tl.startTime, tl.buffer[1], cursorTime) THEN s
      ELSE LET off == IF outcome[i] = "ok" THEN Max(0, cursorTime - tl.startTime) ELSE 0
               src == Node("scrub", i, gen, s.now, off,
                           s.now + Min(ScrubDuration(outcome[i]), tl.buffer[1] - off),
                           IF outcome[i] = "failed" THEN "unstarted" ELSE "started",
                           << s.now + SCRUB_SLICE_MS + WATCHDOG_EXTRA_MS >>,
                           IF outcome[i] = "ok" THEN 1 ELSE 2)
           IN  [s EXCEPT !.activeScrubSources = Append(@, src),
                         !.watchdogs = @ \cup {Timer(src)}]

scrubTrack(s, i, cursorTime, gen, outcome) ==
  LET tl == s.timelines[i]
  IN  IF tl.buffer = << >> THEN s
      ELSE IF ~ScrubOverlaps(tl.startTime, tl.buffer[1], cursorTime) THEN s
      ELSE LET off == Max(0, cursorTime - tl.startTime)
               src == Node("scrub", i, gen, s.now, off,
                           s.now + Min(ScrubDuration(outcome[i]), tl.buffer[1] - off),
                           IF outcome[i] = "failed" THEN "unstarted" ELSE "started",
                           << s.now + SCRUB_SLICE_MS + WATCHDOG_EXTRA_MS >>,
                           IF outcome[i] = "ok" THEN 1 ELSE 2)
           IN  [s EXCEPT !.activeScrubSources = Append(@, src),
                         !.watchdogs = @ \cup {Timer(src)}]

RECURSIVE scrubTracks(_, _, _, _, _)
scrubTracks(s, i, cursorTime, gen, outcome) ==
  IF i > TIMELINE_COUNT THEN s
  ELSE scrubTracks(scrubTrack(s, i, cursorTime, gen, outcome), i + 1, cursorTime, gen, outcome)

\* the log with a trigger at time t added
Logged(log, t) == IF log = << >> THEN << t >> ELSE << log[Len(log)], t >>

Throttled(s) == s.now - s.lastPerformScrubAt < SCRUB_THROTTLE_MS

\* performScrubAt without clearScrubSources()
performScrubAtNoClear(s, cursorTime, outcome) ==
  IF Throttled(s) THEN s
  ELSE LET s1 == [s EXCEPT !.lastPerformScrubAt = s.now,
                           !.triggerLog = Logged(@, s.now)]
       IN  scrubTracks(s1, 1, cursorTime, NewGen(s1.activeScrubSources), outcome)

performScrubAt(s, cursorTime, outcome) ==
  IF Throttled(s) THEN s
  ELSE LET s1 == clearScrubSources([s EXCEPT !.lastPerformScrubAt = s.now,
                                            !.triggerLog = Logged(@, s.now)])
       IN  scrubTracks(s1, 1, cursorTime, NewGen(s1.activeScrubSources), outcome)

scrubLoop(s, outcome) ==
  IF ~s.isScrubbing THEN s
  ELSE [performScrubAt(s, s.projectCursorTime, outcome) EXCEPT !.scrubRAF = TRUE]

startScrubMode(s, outcome) ==
  LET s1 == IF s.isPlaying THEN stopAllSources(s) ELSE s
      s2 == [s1 EXCEPT !.isScrubbing = TRUE, !.lastPerformScrubAt = 0]
  IN  IF ~s2.scrubRAF THEN scrubLoop(s2, outcome) ELSE s2

\* --------------------------------------------------------------- capture
\* The REC handler after `await ensureAudioContextRunning()`, up to the
\* await of getUserMedia.  streamRequested counts the getUserMedia requests
\* of the track that are not settled yet.
\* the handler without its test of isRecording
recStartNoGuard(s, i) ==
  [s EXCEPT !.timelines[i].startTime = Max(0, s.projectCursorTime),
            !.timelines[i].chunks = 0,
            !.timelines[i].isRecording = TRUE,
            !.timelines[i].streamRequested = @ + 1]

recStart(s, i) ==
  IF s.timelines[i].isRecording THEN s
  ELSE [s EXCEPT !.timelines[i].startTime = Max(0, s.projectCursorTime),
                 !.timelines[i].chunks = 0,
                 !.timelines[i].isRecording = TRUE,
                 !.timelines[i].streamRequested = @ + 1]

\* getUserMedia resolved: the rest of the try block
streamAcquired(s, i) ==
  [s EXCEPT !.timelines[i].streamRequested = @ - 1,
            !.timelines[i].mediaStream = TRUE,
            !.timelines[i].recorder = "recording"]

\* the catch block without its reset of isRecording
streamFailedKeepRecording(s, i) ==
  [s EXCEPT !.timelines[i].streamRequested = @ - 1]

\* getUserMedia rejected: the catch block
streamFailed(s, i) ==
  [s EXCEPT !.timelines[i].streamRequested = @ - 1,
            !.timelines[i].isRecording = FALSE]

\* the STOP handler
stopRecording(s, i) ==
  IF s.timelines[i].recorder = "recording"
  THEN [s EXCEPT !.timelines[i].recorder = "inactive",
                 !.timelines[i].stopEventQueued = TRUE]
  ELSE s

\* recorder.onstop releasing the stream only after a successful decode
recorderStoppedLeak(s, i, size, decoded) ==
  LET s1 == IF size > 0 THEN [s EXCEPT !.timelines[i].chunks = @ + 1] ELSE s
      s2 == IF decoded # << >>
            THEN [s1 EXCEPT !.timelines[i].buffer = decoded,
                            !.timelines[i].mediaStream = FALSE]
            ELSE s1
  IN  [s2 EXCEPT !.timelines[i].isRecording = FALSE,
                 !.timelines[i].recorder = "null",
                 !.timelines[i].stopEventQueued = FALSE]

\* recorder.ondataavailable followed by recorder.onstop.  size is the size of
\* the recorded data, decoded is <<d>> when decodeAudioData yields a buffer of
\* duration d and <<>> when it rejects.
recorderStopped(s, i, size, decoded) ==
  LET s1 == IF size > 0 THEN [s EXCEPT !.timelines[i].chunks = @ + 1] ELSE s
      s2 == IF decoded # << >> THEN [s1 EXCEPT !.timelines[i].buffer = decoded] ELSE s1
  IN  [s2 EXCEPT !.timelines[i].isRecording = FALSE,
                 !.timelines[i].mediaStream = FALSE,
                 !.timelines[i].recorder = "null",
                 !.timelines[i].stopEventQueued = FALSE]

\* ------------------------------------------------------- node callbacks
\* src.onended of the node (kind, track, gen).  The play handler installs
\* tl.sourceNodes.filter(s => s !== src); performScrubAt installs
\* clearTimeout(stopTimeout) and activeScrubSources.filter(it => it.src !== src).
\* an ended handler that tells the nodes apart by track only
onendedByTrack(s, kind, track, gen) ==
  IF kind = "play"
  THEN [s EXCEPT !.timelines[track].sourceNodes =
                    SelectSeq(@, LAMBDA x : x.track # track)]
  ELSE [s EXCEPT !.watchdogs = {w \in @ : ~(w.track = track /\ w.gen = gen)},
                 !.activeScrubSources =
                    SelectSeq(@, LAMBDA x : x.track # track)]

onended(s, kind, track, gen) ==
  IF kind = "play"
  THEN [s EXCEPT !.timelines[track].sourceNodes =
                    SelectSeq(@, LAMBDA x : ~Same(x, kind, track, gen))]
  ELSE [s EXCEPT !.watchdogs = {w \in @ : ~(w.track = track /\ w.gen = gen)},
                 !.activeScrubSources =
                    SelectSeq(@, LAMBDA x : ~Same(x, kind, track, gen))]

\* a watchdog that fires and stops nothing
watchdogNoStop(s, w) ==
  [s EXCEPT !.watchdogs = @ \ {w}]

\* the watchdog timer w fires: try { src.stop(); } catch(e) {} on its node
watchdog(s, w) ==
  [s EXCEPT !.watchdogs = @ \ {w},
            !.activeScrubSources =
               [k \in DOMAIN @ |->
                  IF Same(@[k], "scrub", w.track, w.gen) /\ @[k].timeout = << w.due >>
                  THEN TryStop(@[k]).node ELSE @[k]]]

\* ------------------------------------------------------------ the events
\* time passes
Tick(d) ==
  Commit([Cur EXCEPT !.now = @ + d], Ev("tick", 0, d))

\* master play clicked while playing: stop
PlayClickWhilePlaying ==
  /\ isPlaying
  /\ Commit(updateCursorVisual(stopAllSources(Cur)), Ev("playWhilePlaying", 0, 0))

\* master play clicked while stopped and the audio context is suspended: the
\* handler waits for audioContext.resume()
PlayClickSuspended ==
  /\ ~isPlaying
  /\ audioState = "suspended"
  /\ Commit([Cur EXCEPT !.pendingResume = Append(@, Ev("play", 0, 0))],
            Ev("playClickWait", 0, 0))

\* master play clicked while stopped, audio context running
PlayClickRunning(rejected) ==
  /\ ~isPlaying
  /\ audioState = "running"
  /\ Commit(playFromCursor(Cur, rejected), Ev("play", 0, projectCursorTime))

\* REC of track i clicked (the button is disabled while the track records)
RecClickSuspended(i) ==
  /\ ~timelines[i].isRecording
  /\ audioState = "suspended"
  /\ Commit([Cur EXCEPT !.pendingResume = Append(@, Ev("rec", i, 0))],
            Ev("recClickWait", i, 0))

RecClickRunning(i) ==
  /\ ~timelines[i].isRecording
  /\ audioState = "running"
  /\ Commit(recStart(Cur, i), Ev("rec", i, 0))

\* audioContext.resume() resolved: the waiting handlers continue, in the
\* order of their clicks
RECURSIVE runResumed(_, _, _)
runResumed(s, q, rejected) ==
  IF q = << >> THEN s
  ELSE LET h == Head(q)
           s1 == IF h.name = "play" THEN playFromCursor(s, rejected)
                 ELSE recStart(s, h.track)
       IN  runResumed(s1, Tail(q), rejected)

\* The browser suspends the audio context (an interruption, a page put in
\* the background) while nothing plays and nothing records; the next click
\* finds audioContext.state === "suspended" and waits for resume().
AudioSuspended ==
  /\ audioState = "running"
  /\ ~isPlaying
  /\ \A i \in Tracks : ~timelines[i].isRecording
  /\ Commit([Cur EXCEPT !.audioState = "suspended"], Ev("suspended", 0, 0))

\* how many play handlers wait in q
Plays(q) == Cardinality({k \in DOMAIN q : q[k].name = "play"})

AudioResumed(rejected) ==
  /\ audioState = "suspended"
  /\ pendingResume # << >>
  /\ Commit(runResumed([Cur EXCEPT !.audioState = "running", !.pendingResume = << >>],
                       pendingResume, rejected),
            Ev(CASE Plays(pendingResume) = 0 /\ Len(pendingResume) = 1 -> "resumedRec"
                 [] Plays(pendingResume) = 0 -> "resumedRecs"
                 [] Plays(pendingResume) = 1 -> "resumedPlay"
                 [] OTHER -> "resumedPlays", 0, projectCursorTime))

StreamAcquired(i) ==
  /\ timelines[i].streamRequested > 0
  /\ Commit(streamAcquired(Cur, i), Ev("streamAcquired", i, 0))

StreamFailed(i) ==
  /\ timelines[i].streamRequested > 0
  /\ Commit(streamFailed(Cur, i), Ev("streamFailed", i, 0))

\* STOP of track i clicked (the button is enabled while the track records)
StopClick(i) ==
  /\ timelines[i].isRecording
  /\ Commit(stopRecording(Cur, i), Ev("stopClick", i, 0))

RecorderStopped(i, size, decoded) ==
  /\ timelines[i].stopEventQueued
  /\ decoded # << >> => size > 0
  /\ Commit(recorderStopped(Cur, i, size, decoded),
            Ev(IF decoded # << >> THEN "decoded" ELSE "decodeFailed", i, 0))

\* the frame callback of the play loop
AnimationFrame ==
  /\ animationId
  /\ Commit(animateCursorDuringPlay(Cur), Ev("frame", 0, 0))

\* the frame callback of the scrub loop
ScrubFrame(outcome) ==
  /\ scrubRAF
  /\ Commit(scrubLoop(Cur, outcome), Ev("scrubFrame", 0, 0))

\* One primary pointer: it is down on the cursor canvas or on a track canvas.
PointerIsDown ==
  draggingCursor \/ \E i \in Tracks : timelines[i].isDraggingTimeline

\* pointerdown on the cursor canvas at project time t
CursorPointerDown(t, outcome) ==
  /\ ~PointerIsDown
  /\ Commit([startScrubMode(setProjectCursorTime(Cur, t), outcome)
               EXCEPT !.draggingCursor = TRUE],
            Ev("cursorDown", 0, t))

\* The window's pointermove listeners: one per track, then the cursor's.
RECURSIVE dragTimelines(_, _, _)
dragTimelines(s, i, delta) ==
  IF i > TIMELINE_COUNT THEN s
  ELSE dragTimelines(
         IF s.timelines[i].isDraggingTimeline
         THEN [s EXCEPT !.timelines[i].startTime =
                           Max(0, s.timelines[i].dragStartOffset + delta)]
         ELSE s, i + 1, delta)

\* The pointer moves: to project time t on the cursor canvas, by delta from
\* where it went down.
PointerMove(t, delta) ==
  /\ PointerIsDown
  /\ LET s1 == dragTimelines(Cur, 1, delta)
         s2 == IF s1.draggingCursor THEN setProjectCursorTime(s1, t) ELSE s1
     IN  /\ \A i \in Tracks : s2.timelines[i].startTime <= MaxStartTime
         /\ Commit(s2, Ev("pointerMove", 0, t))

RECURSIVE releaseTimelines(_, _)
releaseTimelines(s, i) ==
  IF i > TIMELINE_COUNT THEN s
  ELSE releaseTimelines([s EXCEPT !.timelines[i].isDraggingTimeline = FALSE], i + 1)

PointerUp ==
  /\ PointerIsDown
  /\ LET s1 == releaseTimelines(Cur, 1)
         s2 == IF s1.draggingCursor
               THEN stopScrubMode([s1 EXCEPT !.draggingCursor = FALSE])
               ELSE s1
     IN  Commit(s2, Ev("pointerUp", 0, 0))

\* pointerdown on the canvas of track i
TrackPointerDown(i) ==
  /\ ~PointerIsDown
  /\ Commit([Cur EXCEPT !.timelines[i].isDraggingTimeline = TRUE,
                        !.timelines[i].dragStartOffset = timelines[i].startTime],
            Ev("trackDown", i, 0))

\* The click listeners of a track canvas: the canvas's own, then the
\* container's single-shot scrub.
singleShot(s, t, outcome) ==
  LET s1 == setProjectCursorTime(setProjectCursorTime(s, t), t)
      s2 == performScrubAt(s1, s1.projectCursorTime, outcome)
  IN  [s2 EXCEPT !.timers = @ \cup {s.now + SCRUB_SLICE_MS + SINGLE_SHOT_EXTRA_MS}]

TrackClick(i, t, outcome) ==
  Commit(singleShot(Cur, t, outcome), Ev("trackClick", i, t))

\* a single-shot clear timer fires
TimerFires(due) ==
  /\ due \in timers
  /\ now >= due
  /\ Commit(clearScrubSources([Cur EXCEPT !.timers = @ \ {due}]),
            Ev("singleShotClear", 0, 0))

\* the watchdog timer w of a scrub node fires
WatchdogFires(w) ==
  /\ w \in watchdogs
  /\ now >= w.due
  /\ Commit(watchdog(Cur, w), Ev("watchdog", w.track, 0))

\* A node that can deliver its ended event: it was stopped, or it has played
\* to its end.
Ending(x) == x.st = "stopped" \/ (x.st = "started" /\ now >= x.endAt)

\* the ended event of a node still held by its list
EndedEvent(x) ==
  /\ audioState = "running"
  /\ x \in Range(activeScrubSources) \cup UNION {Range(timelines[i].sourceNodes) : i \in Tracks}
  /\ Ending(x)
  /\ Commit(onended(Cur, x.kind, x.track, x.gen), Ev("ended", x.track, 0))

\* the ended event of a node that was stopped and dropped from its list
StaleEndedEvent(x) ==
  /\ audioState = "running"
  /\ x \in stale
  /\ Commit(onended([Cur EXCEPT !.stale = @ \ {x}], x.kind, x.track, x.gen),
            Ev("staleEnded", x.track, 0))

\* ----------------------------------------------------- the environment
\* What the environment may supply: clock steps, pointer positions (as
\* project times; the page in view is the user's to scroll), drag distances,
\* durations of decoded recordings, and the device's answers to start().
ClockSteps == {25, 50, 4000}
SeekTimes == {-1000, 2000, 4000, 601000}
DragDeltas == {-2000, 2000}
Durations == {4000}
RejectSets == SUBSET Tracks
ScrubOutcomes == [Tracks -> {"ok", "retried", "failed"}]

\* a capture session on a track of T, from REC to the decoded buffer
CaptureEvents(T) ==
  \E i \in T :
    \/ RecClickSuspended(i)
    \/ RecClickRunning(i)
    \/ StreamAcquired(i)
    \/ StopClick(i)
    \/ \E d \in Durations : RecorderStopped(i, 1, << d >>)

\* the ways a capture session fails
CaptureFailures(T) ==
  \E i \in T :
    \/ StreamFailed(i)
    \/ \E size \in {0, 1} : RecorderStopped(i, size, << >>)

\* master play, with the device refusing start() on one of the sets R
PlayEvents(R) ==
  \/ PlayClickWhilePlaying
  \/ PlayClickSuspended
  \/ \E rejected \in R : PlayClickRunning(rejected)
  \/ \E rejected \in R : AudioResumed(rejected)
  \/ AnimationFrame

\* ended events of nodes
EndedEvents ==
  \/ \E x \in Range(activeScrubSources) \cup UNION {Range(timelines[i].sourceNodes) : i \in Tracks} :
       EndedEvent(x)
  \/ \E x \in stale : StaleEndedEvent(x)

\* a click on a track canvas of T at one of the times S
ClickEvents(T, S, O) ==
  \E i \in T, t \in S, outcome \in O : TrackClick(i, t, outcome)

\* the pointer on the cursor canvas, at the times S
CursorEvents(S, O) ==
  \/ \E t \in S, outcome \in O : CursorPointerDown(t, outcome)
  \/ \E t \in S : PointerMove(t, 0)
  \/ PointerUp
  \/ \E outcome \in O : ScrubFrame(outcome)

\* the timers of the scrub engine
TimerEvents ==
  \/ \E due \in timers : TimerFires(due)
  \/ \E w \in watchdogs : WatchdogFires(w)

\* dragging a clip of a track of T
DragEvents(T) ==
  \/ \E i \in T : TrackPointerDown(i)
  \/ \E delta \in DragDeltas : PointerMove(0, delta)
  \/ PointerUp

Next ==
  \/ \E d \in ClockSteps : Tick(d)
  \/ CaptureEvents(Tracks)
  \/ CaptureFailures(Tracks)
  \/ PlayEvents(RejectSets)
  \/ EndedEvents
  \/ ClickEvents(Tracks, SeekTimes, ScrubOutcomes)
  \/ CursorEvents(SeekTimes, ScrubOutcomes)
  \/ TimerEvents
  \/ DragEvents(Tracks)
  \/ AudioSuspended

Spec == Init /\ [][Next]_vars

\* ------------------------------------------- playback of recorded clips
\* The program with its clips already recorded: a track holds no clip, or the
\* clip a capture session left there (REC with the cursor at the clip's
\* start, the stream acquired, STOP, the recording decoded), and the cursor
\* is where a pointerdown/pointerup on the cursor canvas put it.  The audio
\* context is running once REC was used; while it is still suspended no
\* track holds a clip.  Each such state is one that Init reaches by
\* CaptureEvents and CursorEvents without the clock advancing.
ClipStarts == {0, 2000, 600000}

Clip(start, d) ==
  [NewTimeline EXCEPT !.buffer = << d >>, !.startTime = start, !.chunks = 1]

Recorded == {NewTimeline} \cup {Clip(start, d) : start \in ClipStarts, d \in Durations}

InitPlay ==
  /\ now = 0
  /\ used = [k \in DOMAIN Limit |-> 0]
  /\ audioState \in {"suspended", "running"}
  /\ pendingResume = << >>
  /\ isPlaying = FALSE
  /\ projectStartTime = 0
  /\ animationId = FALSE
  /\ projectCursorTime \in {Clamp(t) : t \in SeekTimes}
  /\ currentPage = PageOf(projectCursorTime)
  /\ projectCursorTimeAtPlayStart = 0
  /\ timelines \in [Tracks -> Recorded]
  /\ audioState = "suspended" => \A i \in Tracks : timelines[i] = NewTimeline
  /\ isScrubbing = FALSE
  /\ lastPerformScrubAt = 0
  /\ activeScrubSources = << >>
  /\ scrubRAF = FALSE
  /\ draggingCursor = FALSE
  /\ stale = {}
  /\ timers = {}
  /\ watchdogs = {}
  /\ uncaught = FALSE
  /\ triggerLog = << >>
  /\ committed = [i \in Tracks |-> << timelines[i].buffer, timelines[i].startTime >>]
  /\ op = Ev("init", 0, 0)
  /\ lastFrame = << >>

\* Playback alone: the clock, master play, frames and ended events.
NextPlay ==
  \/ \E d \in {50, 4000} : Tick(d)
  \/ PlayEvents(RejectSets)
  \/ EndedEvents

SpecPlay == InitPlay /\ [][NextPlay]_vars

\* Seeking and scrubbing over one layout of clips: a clip on every track,
\* overlapping from 2000 to 4000.
Layout == [i \in Tracks |-> Clip(IF i = 1 THEN 0 ELSE 2000, 4000)]

InitSeek ==
  /\ InitPlay
  /\ projectCursorTime = 0
  /\ audioState = "running" => timelines = Layout

Started == {[i \in Tracks |-> "ok"]}

NextSeek ==
  \/ \E d \in {4000} : Tick(d)
  \/ PlayEvents({{}})
  \/ EndedEvents
  \/ ClickEvents({1}, {2000}, Started)
  \/ CursorEvents({-1000, 601000}, Started)
  \/ TimerEvents

SpecSeek == InitSeek /\ [][NextSeek]_vars

NextScrub ==
  \/ \E d \in {25, 4000} : Tick(d)
  \/ EndedEvents
  \/ ClickEvents({1}, {2000}, ScrubOutcomes)
  \/ CursorEvents({2000, 3950, 4000}, ScrubOutcomes)
  \/ TimerEvents

SpecScrub == InitSeek /\ [][NextScrub]_vars

\* Capture on the first track from the page as loaded, with playback moving
\* the cursor: REC, the stream, STOP, the decoder, and their failures.
NextCapture ==
  \/ \E d \in {25, 4000} : Tick(d)
  \/ PlayEvents({{}})
  \/ EndedEvents
  \/ CaptureEvents({1})
  \/ CaptureFailures({1})

SpecCapture == Init /\ [][NextCapture]_vars

\* Failures over the layout of clips: the device refusing start() on any set
\* of tracks, and capture sessions on the first track that fail or succeed.
NextFailures ==
  \/ \E d \in {4000} : Tick(d)
  \/ PlayEvents(RejectSets)
  \/ EndedEvents
  \/ CaptureEvents({1})
  \/ CaptureFailures({1})

SpecFailures == InitSeek /\ [][NextFailures]_vars

\* Master play over the layout of clips with the audio context suspended by
\* the browser between playbacks, so that clicks wait for resume().
NextResume ==
  \/ \E d \in {4000} : Tick(d)
  \/ AudioSuspended
  \/ PlayEvents({{}})
  \/ EndedEvents

SpecResume == InitSeek /\ [][NextResume]_vars

\* Dragging the clips of the tracks while the first track captures.
NextDrag ==
  \/ CaptureEvents({1})
  \/ CaptureFailures({1})
  \/ DragEvents(Tracks)

SpecDrag == Init /\ [][NextDrag]_vars

\* ================================================================ claims
\* the playback voices of every track, and the clips
PlayVoices == [i \in Tracks |-> timelines[i].sourceNodes]
Clips == [i \in Tracks |-> << timelines[i].buffer, timelines[i].startTime >>]
NoPlayVoices == \A i \in Tracks : timelines[i].sourceNodes = << >>

\* the play handler ran once, from Stopped
Played == op.name \in {"play", "resumedPlay"}

\* C1: after the play handler ran from cursor time t and left playback on,
\* a track holds exactly one voice if it has a clip with t < start + duration
\* and no voice otherwise (in particular with no clip), and the voice's
\* offset is max(0, t - start).
C1_VoiceIffClipNotOver ==
  (Played /\ isPlaying) =>
    \A i \in Tracks :
      LET tl == timelines[i]
          has == tl.buffer # << >> /\ op.t < tl.startTime + tl.buffer[1]
      IN  /\ Len(tl.sourceNodes) = IF has THEN 1 ELSE 0
          /\ has => tl.sourceNodes[1].offset = Max(0, op.t - tl.startTime)

\* a play pass that gave one clip a voice read from inside the buffer and
\* skipped another clip that was over
C1_Witness ==
  /\ Played /\ isPlaying
  /\ \E i, j \in Tracks :
       /\ Len(timelines[i].sourceNodes) = 1
       /\ timelines[i].sourceNodes[1].offset > 0
       /\ timelines[j].buffer # << >>
       /\ timelines[j].sourceNodes = << >>

\* C2: every voice the play handler created from cursor time t at device
\* time now starts at now + latency when its clip starts at or before t, and
\* otherwise at now + latency + (start - t) with offset 0.
C2_VoiceStartTime ==
  (Played /\ isPlaying) =>
    \A i \in Tracks : \A k \in DOMAIN timelines[i].sourceNodes :
      LET x == timelines[i].sourceNodes[k]
          start == timelines[i].startTime
      IN  IF start <= op.t
          THEN x.when = now + SCHEDULING_DELAY_MS
          ELSE x.when = now + SCHEDULING_DELAY_MS + (start - op.t) /\ x.offset = 0

\* a play pass with one voice starting at once and one delayed to its clip's start
C2_Witness ==
  /\ Played /\ isPlaying
  /\ \E i, j \in Tracks :
       /\ Len(timelines[i].sourceNodes) = 1
       /\ timelines[i].sourceNodes[1].when = now + SCHEDULING_DELAY_MS
       /\ Len(timelines[j].sourceNodes) = 1
       /\ timelines[j].sourceNodes[1].when > now + SCHEDULING_DELAY_MS

\* every playback voice is aligned to the project clock
Aligned ==
  \A i \in Tracks : \A k \in DOMAIN timelines[i].sourceNodes :
    timelines[i].sourceNodes[k].when - timelines[i].sourceNodes[k].offset
      = projectStartTime + timelines[i].startTime

C4_ScrubSingleGeneration ==
  \A k, l \in DOMAIN activeScrubSources :
    /\ activeScrubSources[k].gen = activeScrubSources[l].gen
    /\ activeScrubSources[k].when = lastPerformScrubAt
    /\ k # l => activeScrubSources[k].track # activeScrubSources[l].track

\* a scrub frame triggered a second generation on two tracks while voices of
\* the generation before still have their ended events to deliver
C4_Witness ==
  /\ op.name = "scrubFrame"
  /\ lastPerformScrubAt = now
  /\ Len(activeScrubSources) >= 2
  /\ \E x \in stale : x.kind = "scrub"

\* C5: a frame update sets the cursor time to now - projectStartTime, and to
\* no less than the frame update before it in the same playback, whatever
\* events came between the two.
C5_ClockConsistency ==
  [][op'.name = "frame" =>
       /\ projectCursorTime' = now' - projectStartTime'
       /\ lastFrame # << >> => projectCursorTime' >= lastFrame[1]]_vars

\* a frame update of a playback during which a click on a track moved the
\* cursor and started scrub voices
C5_Witness ==
  /\ op.name = "frame"
  /\ isPlaying
  /\ now > 0
  /\ activeScrubSources # << >>

\* C6 as amended: stopAllSources lets no error escape, also on voices that
\* never started or have played to their end; a second call right after a
\* first changes nothing; a call with no playback voice changes nothing but
\* isPlaying and the frame request, which it clears.
C6_IdempotentStop ==
  LET s1 == stopAllSources(Cur)
  IN  /\ ~s1.uncaught
      /\ stopAllSources(s1) = s1
      /\ NoPlayVoices => s1 = [Cur EXCEPT !.isPlaying = FALSE, !.animationId = FALSE]

\* C6 as stated: a call with no playback voice leaves the whole state unchanged.
C6_AsStated ==
  NoPlayVoices => stopAllSources(Cur) = Cur

\* playback with a voice that has played to its end, its ended event still
\* to come, and a voice whose start() was refused
C6_Witness ==
  /\ isPlaying
  /\ \E i, j \in Tracks :
       /\ Len(timelines[i].sourceNodes) = 1
       /\ timelines[i].sourceNodes[1].st = "started"
       /\ now >= timelines[i].sourceNodes[1].endAt
       /\ Len(timelines[j].sourceNodes) = 1
       /\ timelines[j].sourceNodes[1].st = "unstarted"

\* C7 as stated: after a seek by a click on a track during playback the clock
\* is anchored to the seek: the next frame update computes the time sought,
\* less at most the scheduling delay.
C7_SeekWhilePlayingJumpCut ==
  (op.name = "trackClick" /\ isPlaying) =>
    /\ now - projectStartTime <= projectCursorTime
    /\ now - projectStartTime >= projectCursorTime - SCHEDULING_DELAY_MS

\* the seeks: a click on a track canvas, pointerdown on the cursor canvas,
\* a move of the pointer that drags the cursor
Seeks ==
  \/ op'.name \in {"trackClick", "cursorDown"}
  \/ op'.name = "pointerMove" /\ draggingCursor

\* C8: a seek to t while Stopped sets the cursor time to 0 for t < 0, to the
\* track duration for t beyond it and to t otherwise, and leaves isPlaying,
\* projectStartTime, the playback voices and the clips as they were.
C8_SeekWhileStopped ==
  [][(~isPlaying /\ Seeks) =>
       /\ projectCursorTime' = IF op'.t < 0 THEN 0
                               ELSE IF op'.t > TRACK_DURATION_SECONDS * 1000
                                    THEN TRACK_DURATION_SECONDS * 1000
                                    ELSE op'.t
       /\ isPlaying' = isPlaying
       /\ projectStartTime' = projectStartTime
       /\ PlayVoices' = PlayVoices
       /\ Clips' = Clips]_vars

\* a drag of the cursor beyond the track duration, after a playback
C8_Witness ==
  /\ op.name = "pointerMove"
  /\ op.t > TRACK_DURATION_SECONDS * 1000
  /\ projectCursorTime = TRACK_DURATION_SECONDS * 1000
  /\ ~isPlaying
  /\ projectStartTime # 0

\* C9 as stated: master play clicked during playback leaves playback on.
C9_PlayWhilePlayingNoOp ==
  op.name = "playWhilePlaying" => isPlaying

LongSteps == {400000}

ClockAdvance(d) ==
  /\ isPlaying
  /\ now - projectStartTime < TrackDurationMs
  /\ Commit([Cur EXCEPT !.now = @ + d], Ev("clock", 0, d))

NextLive ==
  \/ \E d \in LongSteps : ClockAdvance(d)
  \/ PlayEvents({{}})
  \/ EndedEvents

\* Frame callbacks that are requested are run, and the device clock advances.
SpecLive ==
  /\ InitPlay
  /\ [][NextLive]_vars
  /\ WF_vars(AnimationFrame)
  /\ WF_vars(\E d \in LongSteps : ClockAdvance(d))

\* C11: with frame callbacks run and the clock advancing, every playback is
\* eventually followed by Stopped.
C11_PlaybackTerminates == isPlaying ~> ~isPlaying

\* the frame update that found the cursor at or past the track duration:
\* playback is off, no voice and no frame request is left
C11_Witness ==
  /\ op.name = "frame"
  /\ projectCursorTime >= TrackDurationMs
  /\ ~isPlaying
  /\ ~animationId
  /\ NoPlayVoices
  /\ \E x \in stale : x.kind = "play"

\* C12 as stated: any two scrub triggers that were not throttled are at
\* least the throttle interval apart.
C12_ScrubRateLimit ==
  Len(triggerLog) = 2 => triggerLog[2] - triggerLog[1] >= SCRUB_THROTTLE_MS

\* the scrub voices of track i
ScrubVoices(i) == SelectSeq(activeScrubSources, LAMBDA x : x.track = i)

\* A scrub trigger at cursor time t that was not throttled left, for every
\* track, one voice if the track's clip has start <= t < start + duration and
\* none otherwise, created now and reading from t - start, and playing for
\* one of the durations of slices or to the end of the buffer.
ScrubbedAt(t, slices) ==
  \A i \in Tracks :
    LET tl == timelines[i]
        over == /\ tl.buffer # << >>
                /\ tl.startTime <= t
                /\ t < tl.startTime + tl.buffer[1]
        v == ScrubVoices(i)
    IN  /\ Len(v) = IF over THEN 1 ELSE 0
        /\ over =>
             /\ v[1].offset = t - tl.startTime
             /\ v[1].when = now
             /\ \E d \in slices :
                  v[1].endAt - v[1].when = Min(d, tl.buffer[1] - v[1].offset)

\* C13 as amended: a scrub trigger that is not throttled creates exactly one
\* voice for each track whose clip overlaps the cursor time and none for any
\* other track, with offset t - start; the voice plays the slice duration,
\* or half of it when the device refused the first start() and took the retry.
C13_ScrubVoices ==
  [][triggerLog' # triggerLog =>
       ScrubbedAt(projectCursorTime, {SCRUB_SLICE_MS, SCRUB_SLICE_MS \div 2})']_vars

\* C13 as stated: every such voice plays the fixed slice duration.
C13_AsStated ==
  [][triggerLog' # triggerLog => ScrubbedAt(projectCursorTime, {SCRUB_SLICE_MS})']_vars

\* a trigger at the very end of one clip and inside another: one voice
C13_Witness ==
  /\ op.name \in {"cursorDown", "scrubFrame"}
  /\ Len(triggerLog) > 0
  /\ triggerLog[Len(triggerLog)] = now
  /\ Len(activeScrubSources) = 1
  /\ activeScrubSources[1].when = now
  /\ \E i \in Tracks :
       /\ timelines[i].buffer # << >>
       /\ projectCursorTime = timelines[i].startTime + timelines[i].buffer[1]

\* C14: releasing the cursor (stopScrubMode) leaves no scrub voice, leaves
\* scrub mode and cancels the scrub loop without an uncaught error; with no
\* scrub voice alive it stops nothing and touches no clip; and outside scrub
\* mode no step other than a pointerdown on the cursor or a click on a track
\* adds a scrub voice.
C14_EndScrub ==
  [][/\ (draggingCursor /\ op'.name = "pointerUp") =>
          /\ activeScrubSources' = << >>
          /\ ~isScrubbing'
          /\ ~scrubRAF'
          /\ uncaught' = uncaught
          /\ activeScrubSources = << >> =>
               /\ stale' = stale
               /\ timelines' = timelines
               /\ isPlaying' = isPlaying
     /\ (~isScrubbing /\ op'.name \notin {"cursorDown", "trackClick"}) =>
          \A k \in DOMAIN activeScrubSources' :
            \E j \in DOMAIN activeScrubSources :
              Same(activeScrubSources'[k], "scrub", activeScrubSources[j].track,
                   activeScrubSources[j].gen)]_vars

\* the cursor was released while the voices of a trigger of this instant
\* were alive
C14_Witness ==
  /\ op.name = "pointerUp"
  /\ lastPerformScrubAt = now
  /\ ~isScrubbing
  /\ ~scrubRAF
  /\ activeScrubSources = << >>
  /\ \E x \in stale : x.kind = "scrub"

\* C15: a REC click that finds its track recording changes nothing.  The REC
\* button is disabled from the start of a capture to the end of its decode,
\* so the case is REC clicked more than once while the audio context is
\* suspended: when the handlers continue, one stream is requested, and the
\* track is as one start leaves it, with its clip and its recorder untouched.
C15_SecondStartRejected ==
  /\ \A i \in Tracks : timelines[i].streamRequested <= 1
  /\ op.name = "resumedRecs" =>
       \E i \in Tracks :
         /\ timelines[i].isRecording
         /\ timelines[i].streamRequested = 1
         /\ timelines[i].chunks = 0
         /\ timelines[i].startTime = Max(0, projectCursorTime)
         /\ timelines[i].buffer = committed[i][1]
         /\ timelines[i].recorder = "null"
         /\ ~timelines[i].mediaStream

C15_Witness ==
  /\ op.name = "resumedRecs"
  /\ audioState = "running"
  /\ \E i \in Tracks : timelines[i].isRecording /\ timelines[i].streamRequested = 1

\* C16: when a capture starts, the start time recorded for the track is the
\* project cursor of that moment (not below 0): the stored cursor when
\* stopped, the device clock minus the clock of cursor zero when playing.
C16_StartTimeIsCursor ==
  op.name = "rec" =>
    timelines[op.track].startTime =
      Max(0, IF isPlaying THEN now - projectStartTime ELSE projectCursorTime)

\* C17: when getUserMedia rejects, the track is idle again (not recording,
\* no recorder, no stream), no further request is pending, and a REC click
\* on the track starts a capture with one new request.
C17_StreamFailureToIdle ==
  op.name = "streamFailed" =>
    LET tl == timelines[op.track]
        again == recStart(Cur, op.track).timelines[op.track]
    IN  /\ ~tl.isRecording
        /\ tl.streamRequested = 0
        /\ tl.recorder = "null"
        /\ ~tl.mediaStream
        /\ ~tl.stopEventQueued
        /\ again.isRecording
        /\ again.streamRequested = 1

C17_Witness ==
  /\ op.name = "streamFailed"
  /\ ~timelines[op.track].isRecording
  /\ timelines[op.track].streamRequested = 0

\* C18: in every state the buffer and start time of a track that has a
\* buffer are the pair the last decode committed (or the last clip drag
\* moved), never an old buffer with a newer start time; and after a
\* successful decode the track is idle.
C18_AtomicCommit ==
  /\ \A i \in Tracks :
       timelines[i].buffer # << >> => Clips[i] = committed[i]
  /\ op.name = "decoded" =>
       /\ ~timelines[op.track].isRecording
       /\ timelines[op.track].recorder = "null"

\* C19: after a failed decode the track is idle; it has no buffer if no clip
\* was committed before the capture, and otherwise its buffer and start time
\* are those of that clip.
C19_DecodeFailureKeepsClip ==
  op.name = "decodeFailed" =>
    /\ ~timelines[op.track].isRecording
    /\ timelines[op.track].recorder = "null"
    /\ IF committed[op.track][1] = << >>
       THEN timelines[op.track].buffer = << >>
       ELSE Clips[op.track] = committed[op.track]

C21_FailuresTrackScoped ==
  [][/\ op'.name \in {"streamFailed", "decodeFailed"} =>
          \A j \in Tracks \ {op'.track} : timelines'[j] = timelines[j]
     /\ (op'.name \in {"play", "resumedPlay"} /\ isPlaying') =>
          \A j \in Tracks :
            (/\ timelines'[j].buffer # << >>
             /\ timelines'[j].startTime + timelines'[j].buffer[1]
                  > projectCursorTimeAtPlayStart')
              => Len(timelines'[j].sourceNodes) = 1]_vars

\* a play pass in which start() was refused on one track and accepted on
\* another
C21_Witness ==
  /\ op.name = "play"
  /\ isPlaying
  /\ \E i, j \in Tracks :
       /\ Len(timelines[i].sourceNodes) = 1
       /\ timelines[i].sourceNodes[1].st = "unstarted"
       /\ Len(timelines[j].sourceNodes) = 1
       /\ timelines[j].sourceNodes[1].st = "started"

\* C22: the start time of a track that is recording is not moved: a pointer
\* move over a track canvas whose track is mid-capture leaves the track's
\* start time as it was.
C22_NoMoveWhileRecording ==
  [][op'.name = "pointerMove" =>
       \A i \in Tracks :
         timelines[i].isRecording =>
           timelines'[i].startTime = timelines[i].startTime]_vars

\* every node held by a list, playback and scrub
AllVoices ==
  Range(activeScrubSources) \cup UNION {Range(timelines[i].sourceNodes) : i \in Tracks}

\* C23: the ended event of a node that a list still holds removes that node
\* and no other; the ended event of a node of an earlier pass (stopped and
\* dropped from its list) removes nothing; and a track never holds more than
\* one playback node, however many times play and stop alternate.
C23_EndedSelfRemoves ==
  [][/\ op'.name = "ended" =>
          \E x \in AllVoices :
            /\ x.track = op'.track
            /\ x.st = "stopped" \/ (x.st = "started" /\ now >= x.endAt)
            /\ AllVoices' = AllVoices \ {x}
     /\ op'.name = "staleEnded" =>
          /\ PlayVoices' = PlayVoices
          /\ activeScrubSources' = activeScrubSources
     /\ \A i \in Tracks : Len(timelines'[i].sourceNodes) <= 1]_vars

\* the ended event of a playback node of an earlier pass arrived while the
\* nodes of the current pass are held
C23_Witness ==
  /\ op.name = "staleEnded"
  /\ triggerLog = << >>
  /\ isPlaying
  /\ Len(timelines[op.track].sourceNodes) = 1
  /\ timelines[op.track].sourceNodes[1].st = "started"

\* ------------------------------------------------ the watchdog timers
\* The clock while a timer is pending: it reaches the next due time.
PendingDues == {d \in {w.due : w \in watchdogs} \cup timers : d > now}

TimerClock ==
  /\ PendingDues # {}
  /\ LET next == CHOOSE d \in PendingDues : \A e \in PendingDues : d <= e
     IN  Commit([Cur EXCEPT !.now = next], Ev("clock", 0, next - now))

\* Scrub triggers by pointerdown on the cursor and by clicks on a track, with
\* the device free to refuse start() and free to deliver or withhold the
\* ended events.
NextWatchdog ==
  \/ TimerClock
  \/ EndedEvents
  \/ ClickEvents({1}, {2000}, ScrubOutcomes)
  \/ \E outcome \in ScrubOutcomes : CursorPointerDown(2000, outcome)
  \/ PointerUp
  \/ TimerEvents

\* Timers that are due fire and the device clock advances; nothing is
\* assumed of the ended events.
SpecWatchdog ==
  /\ InitSeek
  /\ [][NextWatchdog]_vars
  /\ WF_vars(TimerClock)
  /\ WF_vars(\E w \in watchdogs : WatchdogFires(w))

\* a scrub node that was started and not stopped is held
ScrubSounding == \E x \in Range(activeScrubSources) : x.st = "started"

\* C24: with timers firing and the clock advancing, and whether or not any
\* ended event is delivered, scrub nodes that sound are eventually stopped or
\* cleared; and every pending watchdog timer is the timer of a held node that
\* was not stopped, due SCRUB_SLICE_MS + WATCHDOG_EXTRA_MS after the node was
\* created (the timer of a node that ended or was cleared is not pending).
C24_WatchdogEndsScrubVoices ==
  /\ ScrubSounding ~> ~ScrubSounding
  /\ [](\A w \in watchdogs :
          \E x \in Range(activeScrubSources) :
            /\ x.track = w.track /\ x.gen = w.gen /\ x.timeout = << w.due >>
            /\ x.st # "stopped"
            /\ w.due = x.when + SCRUB_SLICE_MS + WATCHDOG_EXTRA_MS)

\* the watchdog of a node whose ended event did not come stopped it, 130 ms
\* after the node was created
C24_Witness ==
  /\ op.name = "watchdog"
  /\ \E x \in Range(activeScrubSources) :
       /\ x.track = op.track
       /\ x.st = "stopped"
       /\ now = x.when + SCRUB_SLICE_MS + WATCHDOG_EXTRA_MS

\* C25: a playback node whose start() the device refused is not held by its
\* track: after a play pass every node in a track's list was started, every
\* track whose clip is not over holds at most its one node, and playback is
\* on (unless the pass began at or past the end of the track).
C25_RejectedVoiceSkipped ==
  Played =>
    /\ \A i \in Tracks :
         /\ Len(timelines[i].sourceNodes) <= 1
         /\ \A x \in Range(timelines[i].sourceNodes) : x.st # "unstarted"
    /\ op.t - SCHEDULING_DELAY_MS < TrackDurationMs => isPlaying

\* What a trigger at cursor time t left of the retries: start() was called
\* at most twice on a node; a node on which it was called twice reads from
\* one of the offsets retryOffsets(t - start of its clip) and, if the second
\* call was accepted, plays half a slice (or to the end of the buffer).
ScrubRetries(t, retryOffsets(_)) ==
  \A x \in Range(activeScrubSources) :
    LET tl == timelines[x.track]
    IN  /\ x.starts \in {1, 2}
        /\ x.st = "unstarted" => x.starts = 2
        /\ x.starts = 2 =>
             /\ x.offset \in retryOffsets(t - tl.startTime)
             /\ x.st = "started" =>
                  x.endAt - x.when =
                    Min(SCRUB_SLICE_MS \div 2, tl.buffer[1] - x.offset)

SameOffset(localPos) == {localPos}
ZeroOffset(localPos) == {0}

\* C26 as amended: when the device refuses start() for a scrub slice, start()
\* is called once more, with the same in-buffer offset and half the slice
\* duration; if that call is refused too there is no further call (the node
\* stays unstarted).
C26_ScrubRetry ==
  [][triggerLog' # triggerLog => ScrubRetries(projectCursorTime, SameOffset)']_vars

\* C26 as stated: the retry reads from in-buffer offset 0.
C26_AsStated ==
  [][triggerLog' # triggerLog => ScrubRetries(projectCursorTime, ZeroOffset)']_vars

\* a slice whose first start() was refused and whose retry was accepted,
\* inside the clip
C26_Witness ==
  /\ op.name \in {"cursorDown", "trackClick", "scrubFrame"}
  /\ Len(triggerLog) > 0
  /\ triggerLog[Len(triggerLog)] = now
  /\ \E x \in Range(activeScrubSources) :
       /\ x.when = now
       /\ x.starts = 2
       /\ x.st = "started"
       /\ x.offset > 0

\* C27: in every state the project cursor lies between 0 and the track
\* duration and the page in view is not negative.
C27_CursorInRange ==
  /\ 0 <= projectCursorTime
  /\ projectCursorTime <= TrackDurationMs
  /\ currentPage >= 0

\* C28: while isPlaying is false no track holds a playback node; a stop by
\* the play button, the stop at the end of the track and a pointerdown on the
\* cursor (scrub mode) leave isPlaying false and every list empty; and a
\* list holds a node only after a play handler has run.
C28_StoppedMeansNoVoices ==
  /\ ~isPlaying => NoPlayVoices
  /\ op.name \in {"playWhilePlaying", "cursorDown"} => ~isPlaying /\ NoPlayVoices
  /\ (op.name = "frame" /\ projectCursorTime >= TrackDurationMs) =>
       ~isPlaying /\ NoPlayVoices
  /\ ~NoPlayVoices => used.play > 0

\* scrub mode was entered while playing: the playback nodes were stopped and
\* dropped
C28_Witness ==
  /\ op.name = "cursorDown"
  /\ ~isPlaying
  /\ isScrubbing
  /\ NoPlayVoices
  /\ \E x \in stale : x.kind = "play"

\* C29: in every state a track holds at most one playback node, and every
\* node that was dropped from a list was stopped first; in particular when
\* two play handlers that waited for resume() run one after the other, each
\* track whose clip is not over holds the one node of the second pass and the
\* node of the first pass was stopped.
C29_OneVoicePerTrack ==
  /\ \A i \in Tracks :
       /\ Len(timelines[i].sourceNodes) <= 1
       /\ \A x \in Range(timelines[i].sourceNodes) : x.st # "stopped"
  /\ (op.name = "resumedPlays" /\ isPlaying) =>
       \A i \in Tracks :
         (/\ timelines[i].buffer # << >>
          /\ timelines[i].startTime + timelines[i].buffer[1] > op.t)
           => /\ Len(timelines[i].sourceNodes) = 1
              /\ [kind |-> "play", track |-> i, gen |-> 0] \in stale

\* two play handlers ran after resume() over recorded clips
C29_Witness ==
  /\ op.name = "resumedPlays"
  /\ isPlaying
  /\ \E i \in Tracks :
       /\ Len(timelines[i].sourceNodes) = 1
       /\ timelines[i].sourceNodes[1].st = "started"
       /\ [kind |-> "play", track |-> i, gen |-> 0] \in stale

\* C30: scrub nodes and playback nodes never sound together: no state holds
\* a started scrub node while isPlaying is true and a track holds a started
\* playback node.
C30_ScrubExcludesPlayback ==
  ~(/\ isPlaying
    /\ ScrubSounding
    /\ \E i \in Tracks : \E x \in Range(timelines[i].sourceNodes) : x.st = "started")

\* C31: after getUserMedia rejected, a track that held a committed clip
\* before the capture attempt has the same buffer and the same start time as
\* that clip.
C31_StreamFailureKeepsClip ==
  (op.name = "streamFailed" /\ committed[op.track][1] # << >>) =>
    Clips[op.track] = committed[op.track]

====
